---- MODULE Spec2Model ----
(***************************************************************************)
(* A model of suitcase.xdi.Serializer (src/suitcase/xdi/__init__.py): the  *)
(* document handlers start, descriptor, event_page and stop, the header    *)
(* line buffer they keep, and the output file they write and rewrite.      *)
(*                                                                         *)
(* Python values are modelled as follows.                                  *)
(*   - None is <<>> and any other value x of an attribute that may be None *)
(*     is <<x>> (None / Some / Val below).                                 *)
(*   - A dict with string keys is a TLA+ function (record) whose DOMAIN is *)
(*     the dict's key set; an OrderedDict is a sequence of [k, v] records. *)
(*   - A format string is [pre, ref]: the literal text pre followed, when  *)
(*     ref # "", by one replacement field "{ref}".  str.format raises      *)
(*     KeyError when ref is not a key of the document.                     *)
(*   - A text file is the sequence of its lines, without the line breaks.  *)
(*     Rendered values contain no line break.                              *)
(*   - datetime.fromtimestamp(t).isoformat() is computed for whole seconds *)
(*     below one hour, in the UTC time zone.                               *)
(***************************************************************************)
EXTENDS Integers, Sequences, FiniteSets, TLC

VARIABLES
    xdi_file_template,      \* self._xdi_file_template: None or Some(template)
    header_line_buffer,     \* self._header_line_buffer: OrderedDict
    event_descriptor_uids,  \* self._event_descriptor_uids: set
    columns,                \* self.columns: None or Some(tuple)
    export_data_keys,       \* self.export_data_keys: None or Some(set)
    output_file,            \* self._output_file: None or Some(file name)
    files,                  \* the manager's files: name -> [lines, closed]
    artifacts,              \* the manager's artifacts["stream_data"]
    last,                   \* history: the last call and the exception it raised
    start_doc_time,         \* history: the timestamp of the run's start document
    events_received,        \* history: data records received while Open, per
                            \*          descriptor identifier
    rows_appended,          \* history: the rows event_page has written
    closed_at_rewrite,      \* history: None, or Some(whether the output file
                            \*          was closed when the last stop began to
                            \*          rewrite the artifacts)
    peer                    \* a second Serializer, constructed with the same
                            \* Manager: its attributes, its last call and the
                            \* number of data records it has received

vars == <<xdi_file_template, header_line_buffer, event_descriptor_uids,
          columns, export_data_keys, output_file, files, artifacts,
          last, start_doc_time, events_received, rows_appended,
          closed_at_rewrite, peer>>

history == <<start_doc_time, events_received, rows_appended,
             closed_at_rewrite>>

serializer == <<xdi_file_template, header_line_buffer, event_descriptor_uids,
                columns, export_data_keys, output_file>>

-----------------------------------------------------------------------------
(* Bounds of the model.                                                    *)

\* At most MaxEvents data records are received by the Serializer.
MaxEvents == 2
\* A stop document is handled while no file is longer than MaxLines lines.
MaxLines == 12

-----------------------------------------------------------------------------
(* Python values.                                                          *)

None == <<>>
Some(x) == <<x>>
Val(o) == o[1]

\* Variant of Str: None is rendered as the empty text.
StrBlank(o) == IF o = <<>> THEN "" ELSE o[1]

\* str(x) of an attribute that is None or a str.
Str(o) == IF o = None THEN "None" ELSE Val(o)

\* "\t".join(list)
RECURSIVE JoinTab(_)
JoinTab(s) ==
    IF Len(s) = 0 THEN ""
    ELSE IF Len(s) = 1 THEN s[1]
    ELSE s[1] \o "\t" \o JoinTab(Tail(s))

\* line.startswith("#")
StartsWithHash(line) == Len(line) >= 1 /\ SubSeq(line, 1, 1) = "#"

Pad2(n) == IF n < 10 THEN "0" \o ToString(n) ELSE ToString(n)

\* datetime.fromtimestamp(t).isoformat(), t whole seconds, UTC
IsoFormat(t) ==
    "1970-01-01T00:" \o Pad2((t \div 60) % 60) \o ":" \o Pad2(t % 60)

\* The text of a format string.
TemplateText(tpl) ==
    IF tpl.ref = "" THEN tpl.pre ELSE tpl.pre \o "{" \o tpl.ref \o "}"

\* tpl.format(**doc): None stands for the KeyError of a missing key.
Format(tpl, flds) ==
    IF tpl.ref = "" THEN Some(tpl.pre)
    ELSE IF tpl.ref \in DOMAIN flds THEN Some(tpl.pre \o flds[tpl.ref])
    ELSE None

Lit(s) == [pre |-> s, ref |-> ""]
Ref(f) == [pre |-> "", ref |-> f]

-----------------------------------------------------------------------------
(* The ordered header line buffer.                                         *)

BufKeys(buf) == [i \in 1..Len(buf) |-> buf[i].k]
BufHas(buf, key) == \E i \in 1..Len(buf) : buf[i].k = key
BufGet(buf, key) == buf[CHOOSE i \in 1..Len(buf) : buf[i].k = key].v

\* Variant of BufSet: an assigned key moves to the end of the dict.
BufSetMoveToEnd(buf, key, value) ==
    Append(SelectSeq(buf, LAMBDA e : e.k # key), [k |-> key, v |-> value])

\* buf[key] = value: in place when the key exists, appended otherwise.
BufSet(buf, key, value) ==
    IF BufHas(buf, key)
    THEN [i \in 1..Len(buf) |->
            IF buf[i].k = key THEN [k |-> key, v |-> value] ELSE buf[i]]
    ELSE Append(buf, [k |-> key, v |-> value])

BufPop(buf, key) == SelectSeq(buf, LAMBDA e : e.k # key)

-----------------------------------------------------------------------------
(* Header resolution: _initialize_header_line_buffer and                   *)
(* _update_header_lines_from_doc.                                          *)

\* The header value of a column: its rendered label, with the units if any.
ColumnHeaderValue(entry, flds) ==
    LET label == Format(entry.column_label, flds) IN
    IF label = None THEN None
    ELSE IF "units" \in DOMAIN entry
         THEN Some(Val(label) \o " " \o entry.units)
         ELSE Some(Val(label))

\* xdi_value["data"].format(**doc) inside try/except KeyError: an entry
\* without "data" and a document without the referenced key both give None.
HeaderData(entry, flds) ==
    IF "data" \in DOMAIN entry THEN Format(entry.data, flds) ELSE None

\* The value _initialize_header_line_buffer gives an optional header.
InitOptionalValue(key, entry, start_doc) ==
    IF key = "Scan.start_time" THEN Some(IsoFormat(start_doc.time))
    ELSE IF key = "Scan.end_time" THEN None
    ELSE HeaderData(entry, start_doc.flds)

\* The value _update_header_lines_from_doc gives an empty optional header.
UpdateOptionalValue(key, entry, doc_name, doc) ==
    IF key = "Scan.start_time" /\ doc_name = "start"
    THEN Some(IsoFormat(doc.time))
    ELSE IF key = "Scan.end_time" /\ doc_name = "stop"
    THEN Some(IsoFormat(doc.time))
    ELSE HeaderData(entry, doc.flds)

InitVersions(buf, sec) ==
    LET F[i \in 0..Len(sec)] ==
            IF i = 0 THEN buf ELSE BufSet(F[i-1], sec[i].k, None)
    IN F[Len(sec)]

InitColumns(buf, sec, start_doc) ==
    LET F[i \in 0..Len(sec)] ==
            IF i = 0 THEN buf
            ELSE BufSet(F[i-1], sec[i].k,
                        ColumnHeaderValue(sec[i].v, start_doc.flds))
    IN F[Len(sec)]

InitRequired(buf, sec, start_doc) ==
    LET F[i \in 0..Len(sec)] ==
            IF i = 0 THEN buf
            ELSE BufSet(F[i-1], sec[i].k, HeaderData(sec[i].v, start_doc.flds))
    IN F[Len(sec)]

InitOptional(buf, sec, start_doc) ==
    LET F[i \in 0..Len(sec)] ==
            IF i = 0 THEN buf
            ELSE BufSet(F[i-1], sec[i].k,
                        InitOptionalValue(sec[i].k, sec[i].v, start_doc))
    IN F[Len(sec)]

\* _initialize_header_line_buffer: the buffer it leaves and the exception it
\* raises ("" for none); a section missing from the template is a KeyError
\* that leaves the sections before it in the buffer.
InitializeHeaderLineBuffer(buf, tmpl, start_doc) ==
    IF "versions" \notin DOMAIN tmpl THEN [buf |-> buf, err |-> "KeyError"]
    ELSE LET b1 == InitVersions(buf, tmpl.versions) IN
    IF "columns" \notin DOMAIN tmpl THEN [buf |-> b1, err |-> "KeyError"]
    ELSE LET b2 == InitColumns(b1, tmpl.columns, start_doc) IN
    IF "required_headers" \notin DOMAIN tmpl
    THEN [buf |-> b2, err |-> "KeyError"]
    ELSE LET b3 == InitRequired(b2, tmpl.required_headers, start_doc) IN
    IF "optional_headers" \notin DOMAIN tmpl
    THEN [buf |-> b3, err |-> "KeyError"]
    ELSE [buf |-> InitOptional(b3, tmpl.optional_headers, start_doc),
          err |-> ""]

\* Variant of GetEmptyHeaderFields: every entry is rendered again.
GetAllHeaderFields(buf, sec) == sec

\* get_empty_header_fields: the entries of a section whose buffer value is
\* None when the section's loop begins.
GetEmptyHeaderFields(buf, sec) ==
    SelectSeq(sec, LAMBDA e : BufGet(buf, e.k) = None)

UpdateVersions(buf, sec) ==
    LET todo == GetEmptyHeaderFields(buf, sec)
        F[i \in 0..Len(todo)] ==
            IF i = 0 THEN buf ELSE BufSet(F[i-1], todo[i].k, Some(todo[i].v))
    IN F[Len(todo)]

UpdateColumns(buf, sec, doc) ==
    LET todo == GetEmptyHeaderFields(buf, sec)
        F[i \in 0..Len(todo)] ==
            IF i = 0 THEN buf
            ELSE BufSet(F[i-1], todo[i].k,
                        ColumnHeaderValue(todo[i].v, doc.flds))
    IN F[Len(todo)]

\* Variant of UpdateRequired: required headers are rendered at start only.
UpdateRequiredNever(buf, sec, doc) == buf

UpdateRequired(buf, sec, doc) ==
    LET todo == GetEmptyHeaderFields(buf, sec)
        F[i \in 0..Len(todo)] ==
            IF i = 0 THEN buf
            ELSE BufSet(F[i-1], todo[i].k, HeaderData(todo[i].v, doc.flds))
    IN F[Len(todo)]

UpdateOptional(buf, sec, doc_name, doc) ==
    LET todo == GetEmptyHeaderFields(buf, sec)
        F[i \in 0..Len(todo)] ==
            IF i = 0 THEN buf
            ELSE BufSet(F[i-1], todo[i].k,
                        UpdateOptionalValue(todo[i].k, todo[i].v,
                                            doc_name, doc))
    IN F[Len(todo)]

\* _update_header_lines_from_doc, called with a template that is not None.
UpdateHeaderLinesFromDoc(buf, tmpl, doc_name, doc) ==
    IF "versions" \notin DOMAIN tmpl THEN [buf |-> buf, err |-> "KeyError"]
    ELSE LET b1 == UpdateVersions(buf, tmpl.versions) IN
    IF "columns" \notin DOMAIN tmpl THEN [buf |-> b1, err |-> "KeyError"]
    ELSE LET b2 == UpdateColumns(b1, tmpl.columns, doc) IN
    IF "required_headers" \notin DOMAIN tmpl
    THEN [buf |-> b2, err |-> "KeyError"]
    ELSE LET b3 == UpdateRequired(b2, tmpl.required_headers, doc) IN
    IF "optional_headers" \notin DOMAIN tmpl
    THEN [buf |-> b3, err |-> "KeyError"]
    ELSE [buf |-> UpdateOptional(b3, tmpl.optional_headers, doc_name, doc),
          err |-> ""]

-----------------------------------------------------------------------------
(* The header writer and the row emitter.                                  *)

HeaderFieldLine(e) == "# " \o e.k \o " = " \o Str(e.v)

\* The "# field = value" lines of every buffer field but XDI, in buffer order.
HeaderFieldLines(buf) ==
    LET rest == BufPop(buf, "XDI") IN
    [i \in 1..Len(rest) |-> HeaderFieldLine(rest[i])]

ColumnLabelLine(cols) ==
    "# " \o JoinTab([i \in 1..Len(cols) |-> TemplateText(cols[i].column_label)])

\* Variant of WriteHeader: the column-label line is left out.
WriteHeaderNoLabels(buf, cols) ==
    <<Val(BufGet(buf, "XDI"))>> \o HeaderFieldLines(buf) \o <<"#----">>

\* _write_header: the lines written, for a buffer that holds a str for XDI.
WriteHeader(buf, cols) ==
    <<Val(BufGet(buf, "XDI"))>> \o HeaderFieldLines(buf)
        \o <<"#----", ColumnLabelLine(cols)>>

\* Variant of ColumnList: the columns are rendered last to first.
ColumnListReversed(cols, doc) ==
    [i \in 1..Len(cols) |->
        Format(cols[Len(cols) + 1 - i].column_data, doc.data)]

\* Variant of ColumnList: data that is missing is rendered as the empty text.
ColumnListBlank(cols, doc) ==
    [i \in 1..Len(cols) |->
        IF Format(cols[i].column_data, doc.data) = None THEN Some("")
        ELSE Format(cols[i].column_data, doc.data)]

\* The rendered column_data of every column; None for a KeyError.
ColumnList(cols, doc) ==
    [i \in 1..Len(cols) |-> Format(cols[i].column_data, doc.data)]

\* The finalization rewrite keeps the lines that do not start with "#".
KeepLine(line) == ~StartsWithHash(line)

\* The content of the rewritten artifact.
Rewrite(buf, cols, lines) == WriteHeader(buf, cols) \o SelectSeq(lines, KeepLine)

-----------------------------------------------------------------------------
(* The templates the model draws from.  Entries follow the test template   *)
(* of src/suitcase/xdi/tests/test_two_streams.py.                          *)

XdiVersion == [k |-> "XDI", v |-> "# XDI/1.0 Bluesky"]
\* An XDI version literal that does not begin with the comment prefix.
BareXdiVersion == [k |-> "XDI", v |-> "XDI/1.0 Bluesky"]
LibVersion == [k |-> "Lib", v |-> "suitcase-xdi"]

Column1 == [k |-> "Column.1",
            v |-> [column_label |-> Lit("energy"), data_key |-> "det1",
                   column_data |-> Ref("det1"), units |-> "eV"]]
Column2 == [k |-> "Column.2",
            v |-> [column_label |-> Lit("i0"), data_key |-> "det2",
                   column_data |-> Ref("det2")]]

\* A header entry with a value-template, and one without ("{}").
WithData(tpl) == [data |-> tpl]
NoData == [use |-> "false"]

ElementSymbol == [k |-> "Element.symbol", v |-> WithData(Ref("sym"))]
FacilityName == [k |-> "Facility.name", v |-> WithData(Ref("fac"))]
ScanStartTime(e) == [k |-> "Scan.start_time", v |-> e]
ScanEndTime(e) == [k |-> "Scan.end_time", v |-> e]

CanonicalTemplate ==
    [versions |-> <<XdiVersion>>, columns |-> <<Column1, Column2>>,
     required_headers |-> <<ElementSymbol>>,
     optional_headers |->
        <<ScanStartTime(NoData), ScanEndTime(NoData), FacilityName>>]

\* The canonical template with one section replaced.
WithSection(name, sec) == [CanonicalTemplate EXCEPT ![name] = sec]

\* Scan.start_time and Scan.end_time with and without a value-template of
\* their own, declared as optional and as required headers.
ScanEntries == {NoData, WithData(Lit("later"))}

ScanTemplates ==
    {WithSection("optional_headers",
                 <<ScanStartTime(e), ScanEndTime(e), FacilityName>>)
        : e \in ScanEntries}
    \cup
    {[WithSection("required_headers",
                  <<ElementSymbol, ScanStartTime(e), ScanEndTime(e)>>)
        EXCEPT !.optional_headers = <<FacilityName>>] : e \in ScanEntries}

FullTemplates ==
    ScanTemplates
    \cup {WithSection("versions", <<LibVersion, XdiVersion>>),
          WithSection("versions", <<BareXdiVersion>>),
          WithSection("columns", <<Column1>>),
          WithSection("columns", <<>>)}

\* Templates with a section missing.
BrokenTemplates ==
    {[versions |-> <<XdiVersion>>, columns |-> <<Column1>>,
      required_headers |-> <<ElementSymbol>>],
     [versions |-> <<XdiVersion>>,
      required_headers |-> <<ElementSymbol>>,
      optional_headers |-> <<FacilityName>>]}

Templates == FullTemplates \cup BrokenTemplates

-----------------------------------------------------------------------------
(* The documents the model draws from.                                     *)

\* doc["time"] of a start or stop document, in seconds.
Times == {0, 61}
RunUid == "r1"
DescriptorUids == {"d1", "d2"}
DataKeys == {"det1", "det2"}
HeaderSources == {"sym", "fac"}

\* The metadata a document carries: none, or the given sources, all with
\* one value that tells the kind of document it came from.
FieldMaps(sources, value) == {[f \in p |-> value] : p \in {{}, sources}}

\* md["suitcase-xdi"]: an inline configuration, the content of the file at
\* a configuration path, both or neither.
ConfigSources ==
    {[config |-> t] : t \in Templates}
    \cup {[x \in {"config-file-path"} |-> CanonicalTemplate]}
    \cup {[x \in {"config", "config-file-path"} |->
            IF x = "config" THEN CanonicalTemplate
            ELSE [versions |-> <<XdiVersion>>]]}
    \cup {<<>>}

StartDocs ==
    {[time |-> t, uid |-> RunUid, flds |-> m, cfg |-> c]
        : t \in Times, m \in FieldMaps(HeaderSources, "A"), c \in ConfigSources}

DescriptorDocs ==
    {[uid |-> u, data_keys |-> dk, flds |-> m]
        : u \in DescriptorUids, dk \in {{}, {"det1"}, DataKeys},
          m \in FieldMaps({"sym"}, "B")}

\* data[key][0] of an event page, per data key.
DataMaps == {[det1 |-> "1.5", det2 |-> "7"], [det1 |-> "#2"], [det2 |-> "7"]}

EventDocs == {[descriptor |-> u, data |-> d] : u \in DescriptorUids, d \in DataMaps}

StopDocs == {[time |-> t, flds |-> m] : t \in Times, m \in FieldMaps(HeaderSources, "Z")}

-----------------------------------------------------------------------------
(* The state after construction: Serializer.__init__ with a directory, and *)
(* a MultiFileManager that has opened nothing.                             *)

\* Serializer.__init__ of the second Serializer
PeerInit ==
    [xdi_file_template |-> None, header_line_buffer |-> <<>>,
     event_descriptor_uids |-> {}, columns |-> None,
     export_data_keys |-> None, output_file |-> None,
     last |-> [op |-> "__init__", err |-> ""], received |-> 0]

Init ==
    /\ peer = PeerInit
    /\ xdi_file_template = None
    /\ header_line_buffer = <<>>
    /\ event_descriptor_uids = {}
    /\ columns = None
    /\ export_data_keys = None
    /\ output_file = None
    /\ files = <<>>
    /\ artifacts = <<>>
    /\ last = [op |-> "__init__", err |-> ""]
    /\ start_doc_time = None
    /\ events_received = [u \in DescriptorUids |-> 0]
    /\ rows_appended = <<>>
    /\ closed_at_rewrite = None

\* The lifecycle state of the Serializer, read off its attributes: Idle
\* until a start document has set the template, Open once start has
\* completed, Closed once the manager has closed the output file, and
\* Failed after a start that raised with the template already set.
Phase ==
    IF xdi_file_template = None THEN "Idle"
    ELSE IF export_data_keys = None THEN "Failed"
    ELSE IF files[Val(output_file)].closed THEN "Closed"
    ELSE "Open"

Called(op, err) == last' = [op |-> op, err |-> err]

-----------------------------------------------------------------------------
(* Serializer.start                                                        *)

\* Variant of AlreadyStarted: the guard reads self.columns.
AlreadyStartedByColumns == columns # None

\* The start guard: a template is already loaded.
AlreadyStarted == xdi_file_template # None

\* The template start loads: the inline one when given, else the file's.
LoadTemplate(cfg) ==
    IF "config" \in DOMAIN cfg THEN Some(cfg.config)
    ELSE IF "config-file-path" \in DOMAIN cfg THEN Some(cfg["config-file-path"])
    ELSE None

\* file_prefix.format(**doc) + ".xdi", with the default prefix "{uid}-"
FileName(doc) == doc.uid \o "-" \o ".xdi"

\* {c["data_key"] for c in self.columns}
ExportDataKeys(cols) == {cols[i].data_key : i \in 1..Len(cols)}

ColumnValues(sec) == [i \in 1..Len(sec) |-> sec[i].v]

Start(doc) ==
    IF AlreadyStarted
    THEN /\ Called("start", "Exception")
         /\ UNCHANGED <<serializer, files, artifacts, history>>
    ELSE IF LoadTemplate(doc.cfg) = None
    THEN /\ Called("start", "Exception")
         /\ UNCHANGED <<serializer, files, artifacts, history>>
    ELSE
    LET tmpl == Val(LoadTemplate(doc.cfg))
        init == InitializeHeaderLineBuffer(header_line_buffer, tmpl, doc)
        upd  == UpdateHeaderLinesFromDoc(init.buf, tmpl, "start", doc)
        name == FileName(doc)
        cols == ColumnValues(tmpl.columns)
    IN
    /\ xdi_file_template' = Some(tmpl)
    /\ start_doc_time' = Some(doc.time)
    /\ UNCHANGED <<event_descriptor_uids, events_received, rows_appended,
                   closed_at_rewrite>>
    /\ IF init.err # ""
       THEN /\ header_line_buffer' = init.buf
            /\ Called("start", init.err)
            /\ UNCHANGED <<columns, export_data_keys, output_file, files,
                           artifacts>>
       ELSE
       /\ header_line_buffer' = upd.buf
       /\ IF name \in DOMAIN files
          THEN \* mode "xt": the file exists already
               /\ Called("start", "FileExistsError")
               /\ UNCHANGED <<columns, export_data_keys, output_file, files,
                              artifacts>>
          ELSE
          /\ output_file' = Some(name)
          /\ artifacts' = Append(artifacts, name)
          /\ columns' = Some(cols)
          /\ IF Len(cols) = 0
             THEN /\ files' = [n \in DOMAIN files \cup {name} |->
                                IF n = name
                                THEN [lines |-> <<>>, closed |-> FALSE]
                                ELSE files[n]]
                  /\ Called("start", "ValueError")
                  /\ UNCHANGED export_data_keys
             ELSE /\ export_data_keys' = Some(ExportDataKeys(cols))
                  /\ files' = [n \in DOMAIN files \cup {name} |->
                                IF n = name
                                THEN [lines |-> WriteHeader(upd.buf, cols),
                                      closed |-> FALSE]
                                ELSE files[n]]
                  /\ Called("start", "")

-----------------------------------------------------------------------------
(* Serializer.descriptor                                                   *)

\* Variant of IsEligible: one exported data key is enough.
IsEligibleByAnyKey(keys, doc) == keys \cap doc.data_keys # {}

\* set(self.export_data_keys).issubset(descriptor_data_keys.keys())
IsEligible(keys, doc) == keys \subseteq doc.data_keys

\* Variant of Descriptor: an eligible descriptor writes a separator and the
\* column labels to the output file.
DescriptorWritesLabels(doc) ==
    IF export_data_keys = None
    THEN /\ Called("descriptor", "TypeError")
         /\ UNCHANGED <<serializer, files, artifacts, history>>
    ELSE
    LET upd == UpdateHeaderLinesFromDoc(header_line_buffer,
                                        Val(xdi_file_template),
                                        "descriptor", doc)
    IN
    /\ event_descriptor_uids' =
            IF IsEligible(Val(export_data_keys), doc)
            THEN event_descriptor_uids \cup {doc.uid}
            ELSE event_descriptor_uids
    /\ header_line_buffer' = upd.buf
    /\ Called("descriptor", upd.err)
    /\ files' =
            IF IsEligible(Val(export_data_keys), doc)
            THEN [files EXCEPT ![Val(output_file)].lines =
                        @ \o <<"#----", ColumnLabelLine(Val(columns))>>]
            ELSE files
    /\ UNCHANGED <<xdi_file_template, columns, export_data_keys, output_file,
                   artifacts, history>>

Descriptor(doc) ==
    IF export_data_keys = None
    THEN \* set(None)
         /\ Called("descriptor", "TypeError")
         /\ UNCHANGED <<serializer, files, artifacts, history>>
    ELSE
    LET upd == UpdateHeaderLinesFromDoc(header_line_buffer,
                                        Val(xdi_file_template),
                                        "descriptor", doc)
    IN
    /\ event_descriptor_uids' =
            IF IsEligible(Val(export_data_keys), doc)
            THEN event_descriptor_uids \cup {doc.uid}
            ELSE event_descriptor_uids
    /\ header_line_buffer' = upd.buf
    /\ Called("descriptor", upd.err)
    /\ UNCHANGED <<xdi_file_template, columns, export_data_keys, output_file,
                   files, artifacts, history>>

-----------------------------------------------------------------------------
(* Serializer.event_page                                                   *)

\* History: one more data record received, counted while Open.
Received(doc) ==
    events_received' =
        IF Phase = "Open"
        THEN [events_received EXCEPT ![doc.descriptor] = @ + 1]
        ELSE events_received

ReceivedWhileOpen ==
    LET Sum[S \in SUBSET DescriptorUids] ==
            IF S = {} THEN 0
            ELSE LET u == CHOOSE x \in S : TRUE
                 IN events_received[u] + Sum[S \ {u}]
    IN Sum[DescriptorUids]

\* Variant of Accepts: any record is written once a descriptor is eligible.
AcceptsAny(uids, doc) == TRUE

\* The record is for a descriptor whose rows are exported.
Accepts(uids, doc) == doc.descriptor \in uids

EventPage(doc) ==
    /\ Phase = "Open" => ReceivedWhileOpen < MaxEvents
    /\ UNCHANGED <<serializer, artifacts, start_doc_time, closed_at_rewrite>>
    /\ Received(doc)
    /\ IF event_descriptor_uids = {} \/ ~Accepts(event_descriptor_uids, doc)
       THEN \* a message is printed and the record is skipped
            /\ Called("event_page", "")
            /\ UNCHANGED <<files, rows_appended>>
       ELSE
       LET column_list == ColumnList(Val(columns), doc)
           name == Val(output_file)
       IN
       IF \E i \in 1..Len(column_list) : column_list[i] = None
       THEN /\ Called("event_page", "KeyError")
            /\ UNCHANGED <<files, rows_appended>>
       ELSE IF files[name].closed
       THEN \* I/O operation on closed file
            /\ Called("event_page", "ValueError")
            /\ UNCHANGED <<files, rows_appended>>
       ELSE
       LET row == JoinTab([i \in 1..Len(column_list) |-> Val(column_list[i])])
       IN
       /\ files' = [files EXCEPT ![name].lines = Append(@, row)]
       /\ rows_appended' = Append(rows_appended, row)
       /\ Called("event_page", "")

-----------------------------------------------------------------------------
(* Serializer.stop                                                         *)

\* self._manager.close(): every file the manager has opened is closed.
ManagerClose(fs) == [n \in DOMAIN fs |-> [fs[n] EXCEPT !.closed = TRUE]]

\* The place of the last "." of a file name.
LastDot(name) ==
    CHOOSE i \in 1..Len(name) :
        /\ SubSeq(name, i, i) = "."
        /\ \A j \in (i + 1)..Len(name) : SubSeq(name, j, j) # "."

\* Path.with_suffix(suffix), for a name that has a suffix
WithSuffix(name, suffix) == SubSeq(name, 1, LastDot(name) - 1) \o suffix

\* temp_artifact_path.open("wt"), the header and the kept lines written,
\* and the file closed at the end of the with block.
WriteTemp(fs, temp, content) ==
    [n \in DOMAIN fs \cup {temp} |->
        IF n = temp THEN [lines |-> content, closed |-> TRUE] ELSE fs[n]]

\* artifact.unlink()
Unlink(fs, name) == [n \in DOMAIN fs \ {name} |-> fs[n]]

\* Variant of Rename: the content is copied and the source stays.
RenameKeepsSource(fs, from, to) ==
    [n \in DOMAIN fs \cup {to} |-> IF n = to THEN fs[from] ELSE fs[n]]

\* temp_artifact_path.rename(artifact)
Rename(fs, from, to) ==
    [n \in (DOMAIN fs \ {from}) \cup {to} |->
        IF n = to THEN fs[from] ELSE fs[n]]

\* One pass of the loop of stop over the artifacts.
FinishArtifact(fs, buf, cols, artifact) ==
    LET temp == WithSuffix(artifact, ".updating")
        written == WriteTemp(fs, temp, Rewrite(buf, cols, fs[artifact].lines))
    IN Rename(Unlink(written, artifact), temp, artifact)

\* The loop of stop over the artifacts of the manager.
FinishArtifacts(fs, buf, cols, arts) ==
    LET F[i \in 0..Len(arts)] ==
            IF i = 0 THEN fs ELSE FinishArtifact(F[i-1], buf, cols, arts[i])
    IN F[Len(arts)]

\* Variant of CloseBeforeRewrite: the files are closed after the rewrite.
CloseAfterRewrite(fs) == fs

\* The files as the loop over the artifacts finds them: stop has called
\* self._manager.close() before the loop.
CloseBeforeRewrite(fs) == ManagerClose(fs)

Stop(doc) ==
    /\ \A n \in DOMAIN files : Len(files[n].lines) <= MaxLines
    /\ IF xdi_file_template = None
       THEN \* None["versions"]
            /\ Called("stop", "TypeError")
            /\ UNCHANGED <<serializer, files, artifacts, history>>
       ELSE
       LET upd == UpdateHeaderLinesFromDoc(header_line_buffer,
                                           Val(xdi_file_template), "stop", doc)
       IN
       /\ header_line_buffer' = upd.buf
       /\ UNCHANGED <<xdi_file_template, event_descriptor_uids, columns,
                      export_data_keys, output_file, artifacts, start_doc_time,
                      events_received, rows_appended>>
       /\ IF upd.err # ""
          THEN /\ Called("stop", upd.err)
               /\ UNCHANGED <<files, closed_at_rewrite>>
          ELSE \* manager.close(), then every artifact is rewritten
               LET closed == CloseBeforeRewrite(files) IN
               /\ closed_at_rewrite' = Some(closed[Val(output_file)].closed)
               /\ files' = FinishArtifacts(closed, upd.buf, Val(columns),
                                           artifacts)
               /\ Called("stop", "")

-----------------------------------------------------------------------------
(* Serializer.close, called by __exit__ when export leaves its with block. *)

Close ==
    /\ files' = ManagerClose(files)
    /\ Called("close", "")
    /\ UNCHANGED <<serializer, artifacts, history>>

-----------------------------------------------------------------------------

\* A start document is rejected whatever it holds once a template is loaded:
\* one of them stands for all.
StartInputs ==
    IF AlreadyStarted THEN {CHOOSE doc \in StartDocs : TRUE} ELSE StartDocs

\* One Serializer with a Manager of its own: the second one takes no step.
Next ==
    \/ \E doc \in StartInputs : Start(doc) /\ UNCHANGED peer
    \/ \E doc \in DescriptorDocs : Descriptor(doc) /\ UNCHANGED peer
    \/ \E doc \in EventDocs : EventPage(doc) /\ UNCHANGED peer
    \/ \E doc \in StopDocs : Stop(doc) /\ UNCHANGED peer

Spec == Init /\ [][Next]_vars

-----------------------------------------------------------------------------
(* export(gen, directory): the documents of the generator are handled one  *)
(* after the other inside a with block; an exception raised by a handler,  *)
(* or the end of the generator, leaves the block, which closes the         *)
(* Serializer.                                                             *)

\* The with block has not been left.
InWithBlock == last.op # "close" /\ last.err = ""

ExportNext ==
    \/ InWithBlock /\ UNCHANGED peer /\ \E doc \in StartInputs : Start(doc)
    \/ InWithBlock /\ UNCHANGED peer
            /\ \E doc \in DescriptorDocs : Descriptor(doc)
    \/ InWithBlock /\ UNCHANGED peer /\ \E doc \in EventDocs : EventPage(doc)
    \/ InWithBlock /\ UNCHANGED peer /\ \E doc \in StopDocs : Stop(doc)
    \/ last.op # "close" /\ UNCHANGED peer /\ Close

ExportSpec == Init /\ [][ExportNext]_vars

-----------------------------------------------------------------------------
(* Two Serializers constructed with one Manager (Serializer.__init__ keeps *)
(* a directory argument that is not a str or Path as its manager): the     *)
(* files and the artifacts are those of the shared Manager.  The handlers  *)
(* of the second Serializer are the handlers above, acting on its own      *)
(* attributes.                                                             *)

PeerUid == "r2"

PeerCalled(p, op, err) == [p EXCEPT !.last = [op |-> op, err |-> err]]

PeerStart(doc) ==
    /\ UNCHANGED <<serializer, last, history>>
    /\ IF peer.xdi_file_template # None \/ LoadTemplate(doc.cfg) = None
       THEN /\ peer' = PeerCalled(peer, "start", "Exception")
            /\ UNCHANGED <<files, artifacts>>
       ELSE
       LET tmpl == Val(LoadTemplate(doc.cfg))
           init == InitializeHeaderLineBuffer(peer.header_line_buffer,
                                              tmpl, doc)
           upd  == UpdateHeaderLinesFromDoc(init.buf, tmpl, "start", doc)
           name == FileName(doc)
           cols == ColumnValues(tmpl.columns)
           loaded == [peer EXCEPT !.xdi_file_template = Some(tmpl)]
           updated == [loaded EXCEPT !.header_line_buffer = upd.buf]
           opened == [updated EXCEPT !.output_file = Some(name),
                                     !.columns = Some(cols)]
       IN
       IF init.err # ""
       THEN /\ peer' = PeerCalled([loaded EXCEPT
                                       !.header_line_buffer = init.buf],
                                  "start", init.err)
            /\ UNCHANGED <<files, artifacts>>
       ELSE IF name \in DOMAIN files
       THEN /\ peer' = PeerCalled(updated, "start", "FileExistsError")
            /\ UNCHANGED <<files, artifacts>>
       ELSE
       /\ artifacts' = Append(artifacts, name)
       /\ IF Len(cols) = 0
          THEN /\ files' = [n \in DOMAIN files \cup {name} |->
                             IF n = name
                             THEN [lines |-> <<>>, closed |-> FALSE]
                             ELSE files[n]]
               /\ peer' = PeerCalled(opened, "start", "ValueError")
          ELSE /\ files' = [n \in DOMAIN files \cup {name} |->
                             IF n = name
                             THEN [lines |-> WriteHeader(upd.buf, cols),
                                   closed |-> FALSE]
                             ELSE files[n]]
               /\ peer' = PeerCalled(
                            [opened EXCEPT !.export_data_keys =
                                                Some(ExportDataKeys(cols))],
                            "start", "")

PeerDescriptor(doc) ==
    /\ UNCHANGED <<serializer, last, history, files, artifacts>>
    /\ IF peer.export_data_keys = None
       THEN peer' = PeerCalled(peer, "descriptor", "TypeError")
       ELSE
       LET upd == UpdateHeaderLinesFromDoc(peer.header_line_buffer,
                                           Val(peer.xdi_file_template),
                                           "descriptor", doc)
       IN peer' = PeerCalled(
                    [peer EXCEPT
                        !.event_descriptor_uids =
                            IF IsEligible(Val(peer.export_data_keys), doc)
                            THEN @ \cup {doc.uid} ELSE @,
                        !.header_line_buffer = upd.buf],
                    "descriptor", upd.err)

PeerEventPage(doc) ==
    /\ peer.received < MaxEvents
    /\ UNCHANGED <<serializer, last, history, artifacts>>
    /\ LET counted == [peer EXCEPT !.received = @ + 1] IN
       IF \/ peer.event_descriptor_uids = {}
          \/ ~Accepts(peer.event_descriptor_uids, doc)
       THEN /\ peer' = PeerCalled(counted, "event_page", "")
            /\ UNCHANGED files
       ELSE
       LET column_list == ColumnList(Val(peer.columns), doc)
           name == Val(peer.output_file)
       IN
       IF \E i \in 1..Len(column_list) : column_list[i] = None
       THEN /\ peer' = PeerCalled(counted, "event_page", "KeyError")
            /\ UNCHANGED files
       ELSE IF files[name].closed
       THEN /\ peer' = PeerCalled(counted, "event_page", "ValueError")
            /\ UNCHANGED files
       ELSE
       /\ files' = [files EXCEPT ![name].lines =
                        Append(@, JoinTab([i \in 1..Len(column_list) |->
                                            Val(column_list[i])]))]
       /\ peer' = PeerCalled(counted, "event_page", "")

PeerStop(doc) ==
    /\ \A n \in DOMAIN files : Len(files[n].lines) <= MaxLines
    /\ UNCHANGED <<serializer, last, history, artifacts>>
    /\ IF peer.xdi_file_template = None
       THEN /\ peer' = PeerCalled(peer, "stop", "TypeError")
            /\ UNCHANGED files
       ELSE
       LET upd == UpdateHeaderLinesFromDoc(peer.header_line_buffer,
                                           Val(peer.xdi_file_template),
                                           "stop", doc)
           updated == [peer EXCEPT !.header_line_buffer = upd.buf]
       IN
       IF upd.err # ""
       THEN /\ peer' = PeerCalled(updated, "stop", upd.err)
            /\ UNCHANGED files
       ELSE /\ files' = FinishArtifacts(CloseBeforeRewrite(files), upd.buf,
                                        Val(peer.columns), artifacts)
            /\ peer' = PeerCalled(updated, "stop", "")

\* The documents of two interleaved runs: each Serializer is given the
\* documents of its own run.
SharedStartDocs(uid) ==
    {[time |-> 0, uid |-> uid, flds |-> m, cfg |-> [config |-> CanonicalTemplate]]
        : m \in IF uid = RunUid THEN FieldMaps(HeaderSources, "A") \ {<<>>}
                ELSE {<<>>}}

SharedDescriptorDocs(uid) ==
    {d \in DescriptorDocs : d.uid = uid /\ d.data_keys = DataKeys}

SharedEventDocs(uid) ==
    {e \in EventDocs : e.descriptor = uid /\ DOMAIN e.data = DataKeys}

SharedStopDocs == {d \in StopDocs : d.time = 61}

SharedNext ==
    \/ \E doc \in SharedStartDocs(RunUid) : Start(doc) /\ UNCHANGED peer
    \/ \E doc \in SharedDescriptorDocs("d1") :
            Descriptor(doc) /\ UNCHANGED peer
    \/ \E doc \in SharedEventDocs("d1") : EventPage(doc) /\ UNCHANGED peer
    \/ \E doc \in SharedStopDocs : Stop(doc) /\ UNCHANGED peer
    \/ \E doc \in SharedStartDocs(PeerUid) : PeerStart(doc)
    \/ \E doc \in SharedDescriptorDocs("d2") : PeerDescriptor(doc)
    \/ \E doc \in SharedEventDocs("d2") : PeerEventPage(doc)
    \/ \E doc \in SharedStopDocs : PeerStop(doc)

SharedSpec == Init /\ [][SharedNext]_vars

-----------------------------------------------------------------------------
(* Definitions shared by the properties below.                             *)

Template == Val(xdi_file_template)

\* A start has completed: the provisional header is in the output file.
Started == Phase \in {"Open", "Closed"}

OutputLines == files[Val(output_file)].lines

SectionKeys(sec) == [i \in 1..Len(sec) |-> sec[i].k]

\* The keys of the four sections, in declaration order.
DeclaredKeys(tmpl) ==
    SectionKeys(tmpl.versions) \o SectionKeys(tmpl.columns)
        \o SectionKeys(tmpl.required_headers)
        \o SectionKeys(tmpl.optional_headers)

HasPrefix(line, prefix) ==
    Len(line) >= Len(prefix) /\ SubSeq(line, 1, Len(prefix)) = prefix

\* The literal the template gives the version key XDI.
XdiLiteral(tmpl) ==
    tmpl.versions[CHOOSE i \in 1..Len(tmpl.versions)
                    : tmpl.versions[i].k = "XDI"].v

\* The line is the header line of the field: the bare literal for XDI,
\* "# field = value" for any other field.
IsLineOfField(line, key, tmpl) ==
    IF key = "XDI" THEN line = XdiLiteral(tmpl)
    ELSE HasPrefix(line, "# " \o key \o " = ")

-----------------------------------------------------------------------------
(* C1, as stated: in the output file the header fields appear in the order *)
(* versions keys, columns keys, required_headers keys, optional_headers    *)
(* keys, each section in its declared order.                               *)
C1_HeaderInDeclaredOrder ==
    Started =>
        LET keys == DeclaredKeys(Template) IN
        /\ Len(OutputLines) >= Len(keys)
        /\ \A i \in 1..Len(keys) :
                IsLineOfField(OutputLines[i], keys[i], Template)

(* C1, amended: the buffer's keys are the declared keys in declared order  *)
(* in every state after start, whatever documents followed; the header     *)
(* block of the output file, provisional and finalized, is the XDI literal *)
(* on the first line, wherever the versions section declares XDI, then the *)
(* "# field = value" lines of the other declared keys in declared order,   *)
(* then the separator line.                                                *)
C1_HeaderOrder ==
    Started =>
        LET keys == DeclaredKeys(Template)
            rest == SelectSeq(keys, LAMBDA k : k # "XDI")
        IN
        /\ BufKeys(header_line_buffer) = keys
        /\ Len(OutputLines) >= Len(rest) + 2
        /\ OutputLines[1] = XdiLiteral(Template)
        /\ \A i \in 1..Len(rest) :
                IsLineOfField(OutputLines[i + 1], rest[i], Template)
        /\ OutputLines[Len(rest) + 2] = "#----"

\* A finalized output whose template declares another version before XDI,
\* after a descriptor and the stop document have resolved fields.
C1_Witness ==
    /\ Phase = "Closed"
    /\ last = [op |-> "stop", err |-> ""]
    /\ SectionKeys(Template.versions) = <<"Lib", "XDI">>
    /\ BufGet(header_line_buffer, "Element.symbol") = Some("B")
    /\ BufGet(header_line_buffer, "Facility.name") = Some("Z")

-----------------------------------------------------------------------------
\* The line at this place of the output is "# key = value".
ShowsField(lines, key, value) ==
    \E i \in 1..Len(lines) : lines[i] = "# " \o key \o " = " \o value

(* C2: once a header field holds a resolved (non-None) value, no handler   *)
(* call changes it, whatever the document: the first successful render     *)
(* wins.  The header a stop writes shows, for every field, the value the   *)
(* buffer holds.                                                           *)
C2_FirstResolutionWins ==
    [][ /\ \A i \in 1..Len(header_line_buffer) :
                header_line_buffer[i].v # None =>
                    /\ i <= Len(header_line_buffer')
                    /\ header_line_buffer'[i] = header_line_buffer[i]
        /\ (last'.op = "stop" /\ last'.err = "") =>
                \A i \in 1..Len(header_line_buffer') :
                    LET e == header_line_buffer'[i] IN
                    e.k # "XDI" =>
                        ShowsField(OutputLines', e.k,
                                   IF e.v = None THEN "None" ELSE e.v[1])
      ]_vars

\* A descriptor was the first to supply Element.symbol ("B"); the stop
\* document that supplied Facility.name ("Z") supplied Element.symbol too.
C2_Witness ==
    /\ Phase = "Closed"
    /\ BufGet(header_line_buffer, "Element.symbol") = Some("B")
    /\ BufGet(header_line_buffer, "Facility.name") = Some("Z")
    /\ ShowsField(OutputLines, "Element.symbol", "B")
    /\ ShowsField(OutputLines, "Facility.name", "Z")

-----------------------------------------------------------------------------
Declares(tmpl, key) ==
    \E i \in 1..Len(DeclaredKeys(tmpl)) : DeclaredKeys(tmpl)[i] = key

(* C3, as stated: the stop that completes a run leaves a header in which   *)
(* Scan.start_time is the ISO-8601 form of the start document's timestamp  *)
(* and Scan.end_time that of the stop document's timestamp, for every      *)
(* template that declares these fields, whatever value-template it gives   *)
(* them and in whichever section.                                          *)
C3_ScanTimesFromTimestamps ==
    [][ (Phase = "Open" /\ last'.op = "stop") =>
        \A doc \in StopDocs :
            Stop(doc) =>
                /\ Declares(Template, "Scan.start_time") =>
                        ShowsField(OutputLines', "Scan.start_time",
                                   IsoFormat(Val(start_doc_time)))
                /\ Declares(Template, "Scan.end_time") =>
                        ShowsField(OutputLines', "Scan.end_time",
                                   IsoFormat(doc.time))
      ]_vars

-----------------------------------------------------------------------------
\* The stop document of a run has been handled without error.
Finalized == Phase = "Closed" /\ last = [op |-> "stop", err |-> ""]

\* The header block _write_header is to produce from the buffer.
HeaderBlock(buf, tmpl) ==
    LET rest == SelectSeq(buf, LAMBDA e : e.k # "XDI")
        labels == [i \in 1..Len(tmpl.columns) |->
                        TemplateText(tmpl.columns[i].v.column_label)]
    IN <<BufGet(buf, "XDI")[1]>>
        \o [i \in 1..Len(rest) |->
                "# " \o rest[i].k \o " = "
                     \o (IF rest[i].v = None THEN "None" ELSE rest[i].v[1])]
        \o <<"#----", "# " \o JoinTab(labels)>>

\* The lines of the output below its header block.
DataRows(lines) == SubSeq(lines, Len(header_line_buffer) + 3, Len(lines))

\* Data records received while Open for descriptors in the set.
ReceivedFor(uids) ==
    LET Sum[S \in SUBSET DescriptorUids] ==
            IF S = {} THEN 0
            ELSE LET u == CHOOSE x \in S : TRUE
                 IN events_received[u] + Sum[S \ {u}]
    IN Sum[uids]

(* C4, as stated: in the finalized output the number of data rows equals   *)
(* the number of data records received between start and stop whose        *)
(* descriptor identifier was ever in the eligible set.                     *)
C4_RowCount ==
    Finalized =>
        Len(DataRows(OutputLines)) = ReceivedFor(event_descriptor_uids)

(* C5, as stated: every document handled while Idle, a start excepted, and *)
(* every document handled while Closed raises an error.                    *)
C5_RejectedOutsideRun ==
    [][ (Phase \in {"Idle", "Closed"}
            /\ ~(Phase = "Idle" /\ last'.op = "start")) => last'.err # ""
      ]_vars

(* C6: a start document handled in any state other than Idle raises and    *)
(* leaves the template, the header line buffer, the eligible set, the      *)
(* columns and the output resource as they were; the manager never holds a *)
(* second output resource.                                                 *)
C6_SecondStartRejected ==
    [][ /\ (Phase # "Idle" /\ last'.op = "start") =>
                /\ last'.err # ""
                /\ UNCHANGED <<xdi_file_template, header_line_buffer,
                               event_descriptor_uids, columns,
                               export_data_keys, output_file, files,
                               artifacts>>
        /\ Len(artifacts') <= 1
      ]_vars

\* A start document was rejected while the run was Open, after a start
\* that completed.
C6_Witness ==
    /\ Phase = "Open"
    /\ last = [op |-> "start", err |-> "Exception"]
    /\ Len(OutputLines) > 0

(* C7, as stated: after stop the output is exactly one header block        *)
(* rendered from the final buffer followed by every row appended during    *)
(* the run, in order and unchanged.                                        *)
C7_FinalizedOutput ==
    Finalized =>
        OutputLines = HeaderBlock(header_line_buffer, Template)
                        \o rows_appended

\* The optional header that takes the timestamp of a document of this
\* kind instead of a rendered value-template.
TimestampKeys(doc_name) ==
    IF doc_name = "start" THEN {"Scan.start_time"}
    ELSE IF doc_name = "stop" THEN {"Scan.end_time"}
    ELSE {}

\* The header entries whose value comes from their value-template when a
\* document of this kind is handled.
TemplateHeaders(tmpl, doc_name) ==
    tmpl.required_headers
        \o SelectSeq(tmpl.optional_headers,
                     LAMBDA e : e.k \notin TimestampKeys(doc_name))

\* Handling a document with these metadata resolved every header that was
\* unresolved and whose value-template the metadata can render.
ResolvedFrom(doc_name, flds) ==
    LET headers == TemplateHeaders(Template, doc_name) IN
    \A i \in 1..Len(headers) :
        LET e == headers[i] IN
        ( /\ BufGet(header_line_buffer, e.k) = None
          /\ "data" \in DOMAIN e.v
          /\ e.v.data.ref \in DOMAIN flds )
        => BufGet(header_line_buffer', e.k)
                = Some(e.v.data.pre \o flds[e.v.data.ref])

(* C8: a header field that is unresolved and whose source a descriptor or *)
(* the stop document supplies is resolved from that document; the header   *)
(* written at stop shows the resolved value of every field resolved so     *)
(* far, from whichever document first provided it, not None.               *)
C8_ResolvedByLaterDocument ==
    [][ /\ (Phase = "Open" /\ last'.op = "descriptor") =>
                \A doc \in DescriptorDocs :
                    ResolvedFrom("descriptor", doc.flds) \/ ~Descriptor(doc)
        /\ (Phase = "Open" /\ last'.op = "stop") =>
                /\ \A doc \in StopDocs :
                        ResolvedFrom("stop", doc.flds) \/ ~Stop(doc)
                /\ \A i \in 1..Len(header_line_buffer) :
                        LET e == header_line_buffer[i] IN
                        (e.v # None /\ e.k # "XDI") =>
                            ShowsField(OutputLines', e.k, e.v[1])
                /\ \A i \in 1..Len(header_line_buffer') :
                        LET e == header_line_buffer'[i] IN
                        (e.v # None /\ e.k # "XDI") =>
                            /\ ShowsField(OutputLines', e.k, e.v[1])
                            /\ ~ShowsField(OutputLines', e.k, "None")
      ]_vars

\* Element.symbol was unresolved after start (a start document that has it
\* also resolves Facility.name to "A"), a descriptor supplied it, and the
\* finalized header shows it.
C8_Witness ==
    /\ Finalized
    /\ BufGet(header_line_buffer, "Facility.name") = None
    /\ ShowsField(OutputLines, "Element.symbol", "B")
    /\ ~ShowsField(OutputLines, "Element.symbol", "None")

(* C9: while Open, a data record whose descriptor identifier is not in the *)
(* eligible set (the empty set included) raises nothing, appends no row    *)
(* and leaves the Serializer's attributes as they were, so that what       *)
(* follows is handled as if the record had not come.                       *)
C9_IneligibleRecordSkipped ==
    [][ (Phase = "Open" /\ last'.op = "event_page") =>
        \A doc \in EventDocs :
            ( /\ doc.descriptor \notin event_descriptor_uids
              /\ EventPage(doc) )
            => /\ last'.err = ""
               /\ UNCHANGED <<xdi_file_template, header_line_buffer,
                              event_descriptor_uids, columns,
                              export_data_keys, output_file, files,
                              artifacts, rows_appended>>
      ]_vars

\* A record for d2 was skipped while d1, and not d2, was eligible.
C9_Witness ==
    /\ Phase = "Open"
    /\ last = [op |-> "event_page", err |-> ""]
    /\ event_descriptor_uids = {"d1"}
    /\ events_received["d2"] > 0
    /\ rows_appended = <<>>

\* The data_key values of the template's columns.
ColumnDataKeys(tmpl) ==
    {tmpl.columns[i].v.data_key : i \in 1..Len(tmpl.columns)}

(* C10: a descriptor handled while Open adds its identifier to the         *)
(* eligible set if and only if its data keys include the data_key of every *)
(* column; the header update is applied with it in both cases; no handler  *)
(* call removes a member of the eligible set.                              *)
C10_EligibleSet ==
    [][ /\ event_descriptor_uids \subseteq event_descriptor_uids'
        /\ (Phase = "Open" /\ last'.op = "descriptor") =>
            \A doc \in DescriptorDocs :
                \/ /\ event_descriptor_uids' =
                            IF ColumnDataKeys(Template) \subseteq doc.data_keys
                            THEN event_descriptor_uids \cup {doc.uid}
                            ELSE event_descriptor_uids
                   /\ ResolvedFrom("descriptor", doc.flds)
                \/ ~Descriptor(doc)
      ]_vars

\* With two columns, a descriptor of d1 that declared both data keys made
\* d1 eligible, d2 is not eligible, and a descriptor resolved
\* Element.symbol.
C10_Witness ==
    /\ Phase = "Open"
    /\ last = [op |-> "descriptor", err |-> ""]
    /\ Len(Template.columns) = 2
    /\ event_descriptor_uids = {"d1"}
    /\ BufGet(header_line_buffer, "Element.symbol") = Some("B")

-----------------------------------------------------------------------------
(* The text written through the output file object: from a start that     *)
(* completes until stop, it is the                                         *)
(* header block written at start (the XDI literal, one "# field = value"   *)
(* line per other buffer field with the value the buffer held when start   *)
(* completed, "None" for an unresolved one, the separator line and the     *)
(* column-label line) followed by the rows appended so far, in arrival     *)
(* order: start writes the block, and no later step before stop changes    *)
(* it, whatever a descriptor resolves in the buffer.                       *)
C11_ProvisionalOutput ==
    [][ /\ (Phase = "Idle" /\ Phase' = "Open") =>
                /\ OutputLines' = HeaderBlock(header_line_buffer', Template')
                /\ rows_appended' = <<>>
        /\ (Phase = "Open" /\ Phase' = "Open") =>
                LET n == Len(header_line_buffer) + 2 IN
                /\ SubSeq(OutputLines', 1, n) = SubSeq(OutputLines, 1, n)
                /\ SubSeq(OutputLines', n + 1, Len(OutputLines'))
                        = rows_appended'
      ]_vars

\* Two rows were appended and a descriptor resolved Element.symbol in the
\* buffer; the provisional header still shows it as None.
C11_Witness ==
    /\ Phase = "Open"
    /\ Len(rows_appended) = 2
    /\ BufGet(header_line_buffer, "Element.symbol") = Some("B")
    /\ ShowsField(OutputLines, "Element.symbol", "None")
    /\ OutputLines[Len(OutputLines)] = rows_appended[2]

\* The size, in bytes, of the write buffer of a file opened without a
\* buffering argument (io.DEFAULT_BUFFER_SIZE).
BufferSize == 8192

\* Characters that UTF-8, the encoding of the text file, writes as one
\* byte each: the tab and the printable ASCII characters (all but the
\* grave accent, which MaxBytes therefore counts as four).
AsciiChars ==
    "\t !\"#$%&'()*+,-./0123456789:;<=>?@ABCDEFGHIJKLMNOPQRSTUVWXYZ[\\]^_abcdefghijklmnopqrstuvwxyz{|}~"

IsAscii(c) == \E i \in 1..Len(AsciiChars) : SubSeq(AsciiChars, i, i) = c

\* The most bytes the encoding of a string can take: one for an ASCII
\* character, up to four for any other.
MaxBytes(s) ==
    Len(s) + 3 * Cardinality({i \in 1..Len(s) : ~IsAscii(SubSeq(s, i, i))})

\* The most bytes lines of text can take, line breaks included.
RECURSIVE MaxTextBytes(_)
MaxTextBytes(lines) ==
    IF lines = <<>> THEN 0
    ELSE MaxBytes(Head(lines)) + 1 + MaxTextBytes(Tail(lines))

\* What the output resource itself can hold of the text written through a
\* file object f.  The Serializer opens the file in mode "xt" and writes
\* with no flush: the encoded text is held back in the write buffer, so
\* text that cannot take more bytes than the buffer holds reaches the
\* resource only when the file is closed.  Of longer text the resource
\* holds what some number of the write calls wrote; a last line whose line
\* break is still held back reads as a line.
PossiblyHeld(f) ==
    IF f.closed THEN {f.lines}
    ELSE IF MaxTextBytes(f.lines) < BufferSize THEN {<<>>}
    ELSE {SubSeq(f.lines, 1, k) : k \in 0..Len(f.lines)}

(* C11, as stated: in every state between a completed start and stop, the  *)
(* output resource holds the XDI version line, one "# field = value" line  *)
(* per other buffer field, the separator line, the column-label line and   *)
(* then the rows appended so far in arrival order.                         *)
C11_ResourceHoldsProvisional ==
    Phase = "Open" =>
        \A held \in PossiblyHeld(files[Val(output_file)]) :
            LET n == Len(header_line_buffer) + 2 IN
            /\ Len(held) = n + Len(rows_appended)
            /\ held[1] = Val(BufGet(header_line_buffer, "XDI"))
            /\ held[n - 1] = "#----"
            /\ held[n] = ColumnLabelLine(Val(columns))
            /\ SubSeq(held, n + 1, Len(held)) = rows_appended

-----------------------------------------------------------------------------
\* The configuration sources a start document supplies.
SuppliedSources(doc) == DOMAIN doc.cfg \cap {"config", "config-file-path"}

(* C12, as stated: a start document handled while Idle that supplies       *)
(* neither or both of the inline configuration and the configuration file  *)
(* path is rejected.                                                       *)
C12_ExactlyOneSource ==
    [][ (Phase = "Idle" /\ last'.op = "start") =>
        \A doc \in StartDocs :
            (Start(doc) /\ Cardinality(SuppliedSources(doc)) # 1)
                => last'.err # ""
      ]_vars

-----------------------------------------------------------------------------
(* C13, as stated: when the first start has failed for want of a           *)
(* configuration source, of a section or of a column, the manager has      *)
(* opened no output resource and nothing has been written.                 *)
C13_NoOutputOnFailedStart ==
    (last.op = "start" /\ last.err # "" /\ Phase \in {"Idle", "Failed"}) =>
        (artifacts = <<>> /\ DOMAIN files = {})

-----------------------------------------------------------------------------
(* C14, as stated: a stop handled after the output was finalized, which    *)
(* leaves the header buffer as it was, leaves every file as it was.        *)
C14_FinalizationIdempotent ==
    [][ (Finalized /\ last'.op = "stop") =>
        \A doc \in StopDocs :
            (Stop(doc) /\ header_line_buffer' = header_line_buffer)
                => files' = files
      ]_vars

-----------------------------------------------------------------------------
HasSuffix(name, suffix) ==
    /\ Len(name) >= Len(suffix)
    /\ SubSeq(name, Len(name) - Len(suffix) + 1, Len(name)) = suffix

(* C15: no file named "*.updating" is left by any handler; and when export *)
(* leaves its with block right after a stop that completed, every artifact *)
(* is a closed file under the name start gave it, which begins with the    *)
(* header block of the final buffer.                                       *)
C15_ArtifactsAfterExport ==
    [][ /\ \A n \in DOMAIN files' : ~HasSuffix(n, ".updating")
        /\ (last = [op |-> "stop", err |-> ""] /\ last'.op = "close") =>
                /\ artifacts' = <<FileName([uid |-> RunUid])>>
                /\ \A i \in 1..Len(artifacts') :
                        LET a == artifacts'[i]
                            n == Len(header_line_buffer') + 2
                        IN
                        /\ a \in DOMAIN files'
                        /\ files'[a].closed
                        /\ SubSeq(files'[a].lines, 1, n)
                            = HeaderBlock(header_line_buffer', Template')
                        /\ \A j \in (n + 1)..Len(files'[a].lines) :
                                ~StartsWithHash(files'[a].lines[j])
      ]_vars

\* export has handled a run with two data records and left the with block;
\* the artifact holds the final header and the two rows.
C15_Witness ==
    /\ last.op = "close"
    /\ closed_at_rewrite = Some(TRUE)
    /\ Len(rows_appended) = 2
    /\ OutputLines = HeaderBlock(header_line_buffer, Template)
                        \o rows_appended

-----------------------------------------------------------------------------
(* C16, as stated: while the run is Open, that is before any stop document *)
(* was handled, Scan.end_time is unresolved in the header buffer.          *)
C16_EndTimeUnresolvedBeforeStop ==
    (Phase = "Open" /\ BufHas(header_line_buffer, "Scan.end_time")) =>
        BufGet(header_line_buffer, "Scan.end_time") = None

-----------------------------------------------------------------------------
(* C17, as stated: the output file is not closed before the finalization   *)
(* rewrite: when stop begins to rewrite the artifacts the file is open.    *)
C17_CloseAfterRewrite ==
    closed_at_rewrite # None => closed_at_rewrite = Some(FALSE)

(* C17, amended: a stop that completes first updates the header buffer     *)
(* with the stop document, then closes the files of the manager, then      *)
(* rewrites the artifacts: the rewrite finds the output file closed, and   *)
(* the header it writes is that of the updated buffer, followed by the     *)
(* lines of the previous content that do not begin with "#".               *)
C17_UpdateCloseRewrite ==
    [][ (last'.op = "stop" /\ last'.err = "") =>
            /\ closed_at_rewrite' = Some(TRUE)
            /\ files'[Val(output_file)].closed
            /\ OutputLines' =
                    HeaderBlock(header_line_buffer', Template)
                        \o SelectSeq(OutputLines,
                                     LAMBDA l : ~StartsWithHash(l))
      ]_vars

\* A stop that resolved Facility.name completed a run with a data row: the
\* rewrite found the file closed and wrote the value the stop resolved.
C17_Witness ==
    /\ Finalized
    /\ closed_at_rewrite = Some(TRUE)
    /\ Len(rows_appended) > 0
    /\ BufGet(header_line_buffer, "Facility.name") = Some("Z")
    /\ ShowsField(OutputLines, "Facility.name", "Z")

-----------------------------------------------------------------------------
(* C18: a stop handled while Open completes whatever is unresolved: it     *)
(* raises nothing, the run is Closed, and the finalized header has the     *)
(* line "# field = None" for every field that is still unresolved.         *)
C18_UnresolvedShownAsNone ==
    [][ (Phase = "Open" /\ last'.op = "stop") =>
            /\ last'.err = ""
            /\ Phase' = "Closed"
            /\ \A i \in 1..Len(header_line_buffer') :
                    header_line_buffer'[i].v = None =>
                        ShowsField(OutputLines', header_line_buffer'[i].k,
                                   "None")
      ]_vars

\* A run was finalized with the required Element.symbol and the optional
\* Facility.name both unresolved.
C18_Witness ==
    /\ Finalized
    /\ BufGet(header_line_buffer, "Element.symbol") = None
    /\ BufGet(header_line_buffer, "Facility.name") = None
    /\ ShowsField(OutputLines, "Element.symbol", "None")
    /\ ShowsField(OutputLines, "Facility.name", "None")

-----------------------------------------------------------------------------
\* The value a column's data-format template renders from a data record.
RenderedCell(col, doc) ==
    col.v.column_data.pre \o doc.data[col.v.column_data.ref]

\* The rendered values of the template's columns, in declaration order,
\* with a tab between one and the next.
RECURSIVE TabSeparated(_, _, _)
TabSeparated(cols, doc, i) ==
    IF i = Len(cols) THEN RenderedCell(cols[i], doc)
    ELSE RenderedCell(cols[i], doc) \o "\t" \o TabSeparated(cols, doc, i + 1)

\* The column-label line of the header names the columns in that order.
LabelLine(tmpl) ==
    "# " \o JoinTab([i \in 1..Len(tmpl.columns) |->
                        TemplateText(tmpl.columns[i].v.column_label)])

(* C19: a data record that is accepted and rendered while Open appends     *)
(* exactly one line to the output: one rendered value per column, in the   *)
(* declaration order of the columns, which is the order of the             *)
(* column-label line, with a tab between one value and the next.           *)
C19_RowPerRecord ==
    [][ (Phase = "Open" /\ last' = [op |-> "event_page", err |-> ""]) =>
        \A doc \in EventDocs :
            (doc.descriptor \in event_descriptor_uids /\ EventPage(doc)) =>
                /\ OutputLines' =
                        Append(OutputLines,
                               TabSeparated(Template.columns, doc, 1))
                /\ OutputLines[Len(header_line_buffer) + 2]
                        = LabelLine(Template)
      ]_vars

\* With two columns, two records were accepted; the last line of the
\* output is the row of the second.
C19_Witness ==
    /\ Phase = "Open"
    /\ last = [op |-> "event_page", err |-> ""]
    /\ Len(Template.columns) = 2
    /\ rows_appended = <<"1.5\t7", "1.5\t7">>
    /\ OutputLines[Len(OutputLines)] = "1.5\t7"
    /\ OutputLines[Len(header_line_buffer) + 2] = "# energy\ti0"

-----------------------------------------------------------------------------
\* The data record lacks the data some column's data-format refers to.
LacksColumnData(tmpl, doc) ==
    \E i \in 1..Len(tmpl.columns) :
        tmpl.columns[i].v.column_data.ref \notin DOMAIN doc.data

(* C20: while Open, a data record of an eligible descriptor that lacks the *)
(* data of some column, the first or a later one, raises KeyError and      *)
(* leaves the output as it was: no line, and no part of a line, is written.*)
C20_NoPartialRow ==
    [][ (Phase = "Open" /\ last'.op = "event_page") =>
        \A doc \in EventDocs :
            ( /\ doc.descriptor \in event_descriptor_uids
              /\ LacksColumnData(Template, doc)
              /\ EventPage(doc) )
            => /\ last'.err = "KeyError"
               /\ UNCHANGED <<files, rows_appended, serializer>>
      ]_vars

\* With two columns, a record was written and the next one, of the same
\* eligible descriptor, was rejected: the output ends with the one row.
C20_Witness ==
    /\ Phase = "Open"
    /\ last = [op |-> "event_page", err |-> "KeyError"]
    /\ Len(Template.columns) = 2
    /\ events_received["d1"] = 2
    /\ event_descriptor_uids = {"d1"}
    /\ rows_appended = <<"1.5\t7">>
    /\ Len(OutputLines) = Len(header_line_buffer) + 3

-----------------------------------------------------------------------------
(* C21: handling a descriptor document leaves every file, and the list of  *)
(* artifacts, as they were, whatever the descriptor resolves in the header *)
(* buffer; once start has written the header, its lines in the output file *)
(* change only in a step that handles a stop document.                     *)
C21_DescriptorWritesNothing ==
    [][ /\ last'.op = "descriptor" =>
                (files' = files /\ artifacts' = artifacts)
        /\ (Started /\ last'.op # "stop") =>
                \/ OutputLines' = OutputLines
                \/ SubSeq(OutputLines', 1, Len(header_line_buffer) + 2)
                        = SubSeq(OutputLines, 1, Len(header_line_buffer) + 2)
      ]_vars

\* A descriptor has just resolved Element.symbol in the buffer of an Open
\* run; the output file still shows the field as None.
C21_Witness ==
    /\ Phase = "Open"
    /\ last = [op |-> "descriptor", err |-> ""]
    /\ event_descriptor_uids = {"d1"}
    /\ BufGet(header_line_buffer, "Element.symbol") = Some("B")
    /\ ShowsField(OutputLines, "Element.symbol", "None")
    /\ ~ShowsField(OutputLines, "Element.symbol", "B")

-----------------------------------------------------------------------------
(* C22: with two Serializers on one Manager, a stop handled by the second  *)
(* Serializer leaves the open output file of the first as it was, header   *)
(* and rows, and open; and until the first Serializer handles its own stop *)
(* every data record it accepts, with a value for each column, is appended *)
(* to its file.                                                            *)
C22_StopLeavesOtherRun ==
    [][ /\ (Phase = "Open" /\ peer'.last.op = "stop" /\ peer' # peer) =>
                files'[Val(output_file)] = files[Val(output_file)]
        /\ (/\ export_data_keys # None
            /\ closed_at_rewrite = None
            /\ last'.op = "event_page"
            /\ events_received' # events_received) =>
                \A doc \in SharedEventDocs("d1") :
                    (EventPage(doc) /\ Accepts(event_descriptor_uids, doc)) =>
                        /\ last'.err = ""
                        /\ Len(rows_appended') = Len(rows_appended) + 1
      ]_vars

====
